---- MODULE Spec2Model ----
(***************************************************************************)
(* Model of genson/schema/root.py: the SchemaRoot aggregator.              *)
(*                                                                         *)
(* A SchemaRoot owns one SchemaNode (the inference engine) and an optional *)
(* schema_uri.  Python dicts are modelled as functions whose DOMAIN is the *)
(* set of keys present; Python's None is the value None below, and         *)
(* Python's `a or b` is the operator Or, which takes b whenever a is       *)
(* falsy (None or the empty string).                                       *)
(***************************************************************************)
EXTENDS Integers, FiniteSets, Sequences, TLC

\* The SchemaRoot objects alive in the program (s1 and s2 of the class docstring).
Roots == {"s1", "s2"}

\* A comparand of __eq__ that is not a SchemaRoot.
NotARoot == "not a SchemaRoot"

\* Python's None.
None == "None"

DEFAULT_URI == "http://json-schema.org/schema#"

\* Number of distinct non-default, non-empty dialect identifiers callers use.
NumUris == 1

U(i) == "U" \o ToString(i)

\* The strings a caller may give as a dialect identifier.
UriStrings == {"", DEFAULT_URI} \cup {U(i) : i \in 1..NumUris}

\* JSON types the engine distinguishes.
Types == {"string", "integer"}

----------------------------------------------------------------------------
\* Python dicts.

EmptyDict == [k \in {} |-> None]

MkDict(keys, uri, types) == [k \in keys |-> IF k = "$schema" THEN uri ELSE types]

\* del d[key]
Del(d, key) == [k \in DOMAIN d \ {key} |-> d[k]]

\* d.update(other), as a value
Update(d, other) ==
    [k \in DOMAIN d \cup DOMAIN other |-> IF k \in DOMAIN other THEN other[k] ELSE d[k]]

\* Python truthiness of a schema_uri value.
Truthy(v) == v \notin {None, ""}

\* Python's `a or b`.
Or(a, b) == IF Truthy(a) THEN a ELSE b

\* The raw schema dicts a caller may pass to add_schema.
RawSchemas ==
    { MkDict(keys, u, t) : keys \in SUBSET {"$schema", "type"},
                           u \in UriStrings,
                           t \in (SUBSET Types) \ {{}} }

\* The values a caller may pass to add_object, named by their JSON type.
Objects == Types

----------------------------------------------------------------------------
\* The inference engine (SchemaNode), from its contract.

NewSchemaNode == [touched |-> FALSE, types |-> {}, keywords |-> EmptyDict]

NodeAddSchema(node, schema) ==
    [touched  |-> TRUE,
     types    |-> node.types \cup (IF "type" \in DOMAIN schema THEN schema["type"] ELSE {}),
     keywords |-> Update(Del(schema, "type"), node.keywords)]

NodeAddObject(node, obj) ==
    [node EXCEPT !.touched = TRUE, !.types = node.types \cup {obj}]

NodeToSchema(node) ==
    Update(node.keywords,
           IF node.types = {} THEN EmptyDict ELSE MkDict({"type"}, None, node.types))

NodeLen(node) ==
    IF ~node.touched THEN 0
    ELSE IF node.types = {} THEN 1
    ELSE Cardinality(node.types)

NodeEq(n1, n2) == n1 = n2

\* Engine-level fragment providers a caller may pass to add_schema.
ProviderNodes ==
    { [touched |-> TRUE, types |-> t, keywords |-> EmptyDict] : t \in SUBSET Types }

----------------------------------------------------------------------------
VARIABLES
    schema_uri,     \* schema_uri[r]: self.schema_uri of root r
    root_node,      \* root_node[r]: self._root_node of root r
    added,          \* added[r]: add_schema or add_object was ever called on r
    last            \* the last call made, what it was given and what it returned

vars == <<schema_uri, root_node, added, last>>

ReadOps == {"to_schema", "to_json", "len", "eq", "ne"}

\* A record of a call; fields a call does not use keep these values.
NoCall ==
    [op |-> "init", self |-> NotARoot, kind |-> "-", other |-> NotARoot,
     pre_uri |-> None, input_id |-> None, caller_after |-> None,
     caller_intact |-> TRUE, passed_keys |-> {}, self_merge |-> FALSE,
     mutual |-> FALSE, ret |-> None]

\* SchemaRoot._base_schema
BaseSchema(uri) == MkDict({"$schema"}, Or(uri, DEFAULT_URI), {})

ToSchemaOf_BaseOnly(uri, node) == BaseSchema(uri)

\* SchemaRoot.to_schema
ToSchemaOf(uri, node) == Update(BaseSchema(uri), NodeToSchema(node))

to_schema(r) == ToSchemaOf(schema_uri[r], root_node[r])

\* SchemaRoot.to_json: the text lists the keys of to_schema() in insertion order.
to_json(r) ==
    LET schema == to_schema(r)
        order  == <<"$schema", "type">>
    IN  [keys |-> SelectSeq(order, LAMBDA k : k \in DOMAIN schema),
         text |-> schema]

\* SchemaRoot.__len__
SchemaRootLen(r) == NodeLen(root_node[r])

Eq_WithUri(self, other) ==
    IF self = other THEN TRUE
    ELSE IF other \notin Roots THEN FALSE
    ELSE /\ NodeEq(root_node[self], root_node[other])
         /\ schema_uri[self] = schema_uri[other]

\* SchemaRoot.__eq__
Eq(self, other) ==
    IF self = other THEN TRUE
    ELSE IF other \notin Roots THEN FALSE
    ELSE NodeEq(root_node[self], root_node[other])

\* SchemaRoot.__ne__
Ne(self, other) == ~Eq(self, other)

----------------------------------------------------------------------------
\* add_schema

\* The dialect identifier the caller's input carries: the '$schema' value of a
\* raw dict, the schema_uri of a SchemaRoot, none for a SchemaNode.
InputId(kind, input) ==
    CASE kind = "SchemaRoot" -> schema_uri[input]
      [] kind = "SchemaNode" -> None
      [] OTHER               -> IF "$schema" \in DOMAIN input THEN input["$schema"] ELSE None

Resolve_Leak(kind, input) ==
    CASE kind = "SchemaRoot" -> to_schema(input)
      [] kind = "SchemaNode" -> NodeToSchema(input)
      [] OTHER               -> input

\* The dict that `schema` names after the isinstance dispatch.
Resolve(kind, input) ==
    CASE kind = "SchemaRoot" ->
            LET uri    == schema_uri[input]
                schema == to_schema(input)
            IN  IF uri = None THEN Del(schema, "$schema") ELSE schema
      [] kind = "SchemaNode" -> NodeToSchema(input)
      [] OTHER               -> input

Strip_NoCopy(uri, schema) ==
    IF "$schema" \in DOMAIN schema
    THEN [uri      |-> Or(uri, schema["$schema"]),
          passed   |-> Del(schema, "$schema"),
          original |-> Del(schema, "$schema")]
    ELSE [uri |-> uri, passed |-> schema, original |-> schema]

Strip_NoDel(uri, schema) ==
    IF "$schema" \in DOMAIN schema
    THEN [uri      |-> Or(uri, schema["$schema"]),
          passed   |-> schema,
          original |-> schema]
    ELSE [uri |-> uri, passed |-> schema, original |-> schema]

Strip_ResetUri(uri, schema) ==
    IF "$schema" \in DOMAIN schema
    THEN [uri      |-> None,
          passed   |-> Del(schema, "$schema"),
          original |-> schema]
    ELSE [uri |-> uri, passed |-> schema, original |-> schema]

\* The `if '$schema' in schema` block: the new self.schema_uri, the dict handed
\* to the engine, and the state in which the dict that `schema` named is left.
Strip(uri, schema) ==
    IF "$schema" \in DOMAIN schema
    THEN [uri      |-> Or(uri, schema["$schema"]),
          passed   |-> Del(schema, "$schema"),
          original |-> schema]
    ELSE [uri |-> uri, passed |-> schema, original |-> schema]

Delegate_SkipEmpty(node, passed) ==
    IF passed = EmptyDict THEN node ELSE NodeAddSchema(node, passed)

\* self._root_node.add_schema(schema)
Delegate(node, passed) == NodeAddSchema(node, passed)

add_schema(self, kind, input) ==
    LET schema == Resolve(kind, input)
        s      == Strip(schema_uri[self], schema)
    IN  /\ schema_uri' = [schema_uri EXCEPT ![self] = s.uri]
        /\ root_node' = [root_node EXCEPT ![self] = Delegate(@, s.passed)]
        /\ added' = [added EXCEPT ![self] = TRUE]
        /\ last' = [NoCall EXCEPT
                     !.op = "add_schema", !.self = self, !.kind = kind,
                     !.other = IF kind = "SchemaRoot" THEN input ELSE NotARoot,
                     !.pre_uri = schema_uri[self],
                     !.input_id = InputId(kind, input),
                     !.caller_after = IF "$schema" \in DOMAIN s.original
                                      THEN s.original["$schema"] ELSE None,
                     !.caller_intact = (s.original = schema),
                     !.passed_keys = DOMAIN s.passed,
                     !.self_merge = (kind = "dict" /\ schema = to_schema(self)),
                     !.mutual = /\ kind = "SchemaRoot"
                                /\ last.op = "add_schema"
                                /\ last.kind = "SchemaRoot"
                                /\ last.self = input
                                /\ last.other = self]

AddSchemaDict(self, schema) == add_schema(self, "dict", schema)

AddSchemaRoot(self, other) == add_schema(self, "SchemaRoot", other)

AddSchemaNode(self, node) == add_schema(self, "SchemaNode", node)

\* add_object
AddObject(self, obj) ==
    /\ root_node' = [root_node EXCEPT ![self] = NodeAddObject(@, obj)]
    /\ added' = [added EXCEPT ![self] = TRUE]
    /\ last' = [NoCall EXCEPT !.op = "add_object", !.self = self,
                              !.pre_uri = schema_uri[self]]
    /\ UNCHANGED schema_uri

----------------------------------------------------------------------------
\* Calls that only read.

Read(op, self, other, ret) ==
    /\ last' = [NoCall EXCEPT !.op = op, !.self = self, !.other = other,
                              !.pre_uri = schema_uri[self], !.ret = ret]
    /\ UNCHANGED <<schema_uri, root_node, added>>

ToSchema(self) == Read("to_schema", self, NotARoot, to_schema(self))

ToJson(self) == Read("to_json", self, NotARoot, to_json(self))

LenCall(self) == Read("len", self, NotARoot, SchemaRootLen(self))

EqCall(self, other) == Read("eq", self, other, Eq(self, other))

NeCall(self, other) == Read("ne", self, other, Ne(self, other))

----------------------------------------------------------------------------
\* SchemaRoot.__init__, for every root, with or without a schema_uri argument.
Init ==
    /\ schema_uri \in [Roots -> {None} \cup UriStrings]
    /\ root_node = [r \in Roots |-> NewSchemaNode]
    /\ added = [r \in Roots |-> FALSE]
    /\ last = NoCall

\* Every root is constructed with a schema_uri argument.
InitGiven ==
    /\ schema_uri \in [Roots -> UriStrings]
    /\ root_node = [r \in Roots |-> NewSchemaNode]
    /\ added = [r \in Roots |-> FALSE]
    /\ last = NoCall

\* Every root is constructed without one.
InitUnset ==
    /\ schema_uri = [r \in Roots |-> None]
    /\ root_node = [r \in Roots |-> NewSchemaNode]
    /\ added = [r \in Roots |-> FALSE]
    /\ last = NoCall

Next ==
    \/ \E self \in Roots, schema \in RawSchemas : AddSchemaDict(self, schema)
    \/ \E self \in Roots, other \in Roots : AddSchemaRoot(self, other)
    \/ \E self \in Roots, node \in ProviderNodes : AddSchemaNode(self, node)
    \/ \E self \in Roots, obj \in Objects : AddObject(self, obj)
    \/ \E self \in Roots : ToSchema(self)
    \/ \E self \in Roots : ToJson(self)
    \/ \E self \in Roots : LenCall(self)
    \/ \E self \in Roots, other \in Roots \cup {NotARoot} : EqCall(self, other)
    \/ \E self \in Roots, other \in Roots \cup {NotARoot} : NeCall(self, other)

Spec == Init /\ [][Next]_vars

SpecGiven == InitGiven /\ [][Next]_vars

SpecUnset == InitUnset /\ [][Next]_vars

----------------------------------------------------------------------------
\* Properties.

\* C1: for a root constructed without a schema_uri, the first add_schema input
\* that carries a dialect identifier sets schema_uri to that identifier, and
\* once schema_uri is set no later add_schema changes it.
C1_FirstWins ==
    last.op = "add_schema" =>
        /\ (last.pre_uri = None /\ last.input_id # None
               => schema_uri[last.self] = last.input_id)
        /\ (last.pre_uri # None => schema_uri[last.self] = last.pre_uri)

\* C2: when every root is constructed with a schema_uri argument, no call
\* ever changes schema_uri.
C2_ConstructorAuthoritative == [][schema_uri' = schema_uri]_vars

\* C3: add_schema with a raw dict that has a '$schema' key leaves the caller's
\* dict as it was, the key present with the same value.
C3_CallerDictUntouched ==
    (last.op = "add_schema" /\ last.kind = "dict" /\ last.input_id # None)
        => (last.caller_intact /\ last.caller_after = last.input_id)

C3_Witness ==
    /\ last.op = "add_schema" /\ last.kind = "dict"
    /\ last.input_id = U(1)
    /\ last.caller_after = U(1)
    /\ last.passed_keys = {"type"}

\* C4: the '$schema' field of the dict to_schema() returns is schema_uri when
\* schema_uri is set, whatever string it holds, and DEFAULT_URI when it is unset.
C4_ToSchemaDialect ==
    last.op = "to_schema" =>
        last.ret["$schema"] =
            (IF schema_uri[last.self] = None THEN DEFAULT_URI ELSE schema_uri[last.self])

\* C5: a.add_schema(a.to_schema()) leaves a.to_schema() as it was.
C5_SelfMergeIdempotent ==
    [][(last'.op = "add_schema" /\ last'.self_merge)
          => ToSchemaOf(schema_uri'[last'.self], root_node'[last'.self])
               = to_schema(last'.self)]_vars

C5_Witness ==
    /\ last.op = "add_schema" /\ last.self_merge
    /\ last.pre_uri = U(1)
    /\ root_node[last.self].types = Types
    /\ to_schema(last.self) = MkDict({"$schema", "type"}, U(1), Types)

\* C6: s == t is decided by the engines alone, whatever the two schema_uri
\* values; s == s; and s != t is the negation of s == t.
C6_EqualityIgnoresDialect ==
    /\ \A s \in Roots, t \in Roots :
          /\ Eq(s, t) <=> NodeEq(root_node[s], root_node[t])
          /\ Ne(s, t) <=> ~Eq(s, t)
    /\ \A s \in Roots : Eq(s, s)
    /\ (last.op = "eq" /\ last.other \in Roots)
          => (last.ret <=> NodeEq(root_node[last.self], root_node[last.other]))
    /\ (last.op = "ne" /\ last.other \in Roots)
          => (last.ret <=> ~NodeEq(root_node[last.self], root_node[last.other]))

C6_Witness ==
    /\ last.op = "eq" /\ last.other \in Roots /\ last.other # last.self
    /\ last.ret = TRUE
    /\ root_node[last.self].types # {}
    /\ schema_uri[last.self] = U(1)
    /\ schema_uri[last.other] = DEFAULT_URI

\* C7: after s1.add_schema(s2) followed at once by s2.add_schema(s1), s1 == s2.
C7_MutualMergeConverges == last.mutual => Eq(last.self, last.other)

C7_Witness ==
    /\ last.mutual /\ last.self # last.other
    /\ root_node[last.self].types = Types
    /\ schema_uri[last.self] # schema_uri[last.other]
    /\ Eq(last.self, last.other)

\* C8: len(root) is 0 exactly while neither add_schema nor add_object has been
\* called on the root, and no reading call changes any root's length.
C8_Emptiness ==
    /\ [](\A r \in Roots : (SchemaRootLen(r) = 0) <=> ~added[r])
    /\ [][last'.op \in ReadOps
            => \A r \in Roots : NodeLen(root_node'[r]) = SchemaRootLen(r)]_vars

C8_Witness ==
    /\ last.op = "add_schema" /\ last.passed_keys = {}
    /\ SchemaRootLen(last.self) = 1
    /\ \E r \in Roots : SchemaRootLen(r) = 0

\* C9: add_schema with a SchemaRoot whose schema_uri is unset leaves the
\* receiver's schema_uri as it was.
C9_DefaultDoesNotLeak ==
    (last.op = "add_schema" /\ last.kind = "SchemaRoot" /\ last.input_id = None)
        => schema_uri[last.self] = last.pre_uri

C9_Witness ==
    /\ last.op = "add_schema" /\ last.kind = "SchemaRoot"
    /\ last.other # last.self
    /\ last.input_id = None /\ last.pre_uri = None
    /\ schema_uri[last.self] = None
    /\ to_schema(last.other)["$schema"] = DEFAULT_URI

\* C10: the dict add_schema hands to the engine has no '$schema' key, and no
\* engine's own schema has one.
C10_EngineSeesNoDialect ==
    /\ last.op = "add_schema" => "$schema" \notin last.passed_keys
    /\ \A r \in Roots : "$schema" \notin DOMAIN NodeToSchema(root_node[r])

C10_Witness ==
    /\ last.op = "add_schema" /\ last.kind = "SchemaRoot"
    /\ last.input_id = U(1)
    /\ last.passed_keys = {"type"}
    /\ NodeToSchema(root_node[last.self]) = MkDict({"type"}, None, Types)

====
